---- MODULE Spec2Model ----
(***************************************************************************)
(* Verification model of the receipt extraction pipeline                   *)
(* (src/inngest/agent.ts): the retryWithBackoff helper and the             *)
(* extractAndSavePDF background function with its two checkpointed steps.  *)
(***************************************************************************)
EXTENDS Integers, Sequences, FiniteSets, TLC

(***************************************************************************)
(* Text.  Messages are sequences of characters so that String.includes is  *)
(* a real substring search.                                                *)
(***************************************************************************)

\* String.prototype.includes: needle occurs in hay as a contiguous run.
Includes(hay, needle) ==
    \E i \in 0..(Len(hay) - Len(needle)) :
        \A j \in 1..Len(needle) : hay[i + j] = needle[j]

Tok429 == <<"4", "2", "9">>
TokRate == <<"r", "a", "t", "e">>
TokQuota == <<"q", "u", "o", "t", "a">>

\* Messages an operation may fail with.
MsgBoom == <<"b", "o", "o", "m">>
MsgHttp429 == <<"H", "T", "T", "P", " ", "4", "2", "9">>
MsgQuota == <<"q", "u", "o", "t", "a", " ", "h", "i", "t">>
MsgGenerate == <<"g", "e", "n", "e", "r", "a", "t", "e">>
MsgMaxRetries == <<"M", "a", "x", " ", "r", "e", "t", "r", "i", "e", "s">>

NoError == [kind |-> "none", message |-> <<>>]

\* A thrown value: an Error object, or any other value (here a string).
Thrown(kind, message) == [kind |-> kind, message |-> message]

(***************************************************************************)
(* retryWithBackoff                                                        *)
(***************************************************************************)

MaxRetriesDefault == 5
BaseDelayDefault == 2000
RateLimitFloorMs == 10000

RECURSIVE Pow2(_)
Pow2(n) == IF n = 0 THEN 1 ELSE 2 * Pow2(n - 1)

Max(a, b) == IF a >= b THEN a ELSE b

\* lastError = error instanceof Error ? error : new Error(String(error))
ToError(thrown) == [kind |-> "Error", message |-> thrown.message]

\* Variant: only the first error is remembered.
KeepFirstError(lastError, thrown) ==
    IF lastError = NoError THEN ToError(thrown) ELSE lastError

\* The catch block's assignment to lastError.
NextLastError(lastError, thrown) == ToError(thrown)

IsRateLimit(err) ==
    \/ Includes(err.message, Tok429)
    \/ Includes(err.message, TokRate)
    \/ Includes(err.message, TokQuota)

\* Variant: the rate-limit floor is not applied.
DelayWithoutFloor(attempt, baseDelayMs, isRateLimit) ==
    baseDelayMs * Pow2(attempt)

\* Variant: the delay grows linearly with the attempt index.
LinearDelay(attempt, baseDelayMs, isRateLimit) ==
    LET delayMs == baseDelayMs * (attempt + 1)
    IN  IF isRateLimit THEN Max(delayMs, RateLimitFloorMs) ELSE delayMs

\* delayMs = baseDelayMs * Math.pow(2, attempt), floored at 10 s on rate limits.
ComputeDelay(attempt, baseDelayMs, isRateLimit) ==
    LET delayMs == baseDelayMs * Pow2(attempt)
    IN  IF isRateLimit THEN Max(delayMs, RateLimitFloorMs) ELSE delayMs

\* Variant: the loop gives up one attempt early.
LoopStopsEarly(attempt, maxRetries) == attempt < maxRetries - 1

\* for (...; attempt < maxRetries; ...)
LoopContinues(attempt, maxRetries) == attempt < maxRetries

\* Variant: a wait follows the last failure too.
WaitsAfterEveryFailure(attempt, maxRetries) == attempt < maxRetries

\* if (attempt < maxRetries - 1) { ...wait... }
ShouldWait(attempt, maxRetries) == attempt < maxRetries - 1

\* State of one call of retryWithBackoff.
RetryStart(maxRetries) ==
    [attempt |-> 0,
     lastError |-> NoError,
     delays |-> <<>>,
     waited |-> 0,
     status |-> IF LoopContinues(0, maxRetries) THEN "running" ELSE "thrown",
     result |-> 0,
     error |-> IF LoopContinues(0, maxRetries) THEN NoError
               ELSE Thrown("Error", MsgMaxRetries)]

\* The operation returned value: return await fn().
RetryOnSuccess(rs, value) ==
    [rs EXCEPT !.status = "returned", !.result = value]

\* The operation threw: the catch block, the wait, attempt++ and the loop test.
RetryOnFailure(rs, thrown, maxRetries, baseDelayMs) ==
    LET err == NextLastError(rs.lastError, thrown)
        waits == ShouldWait(rs.attempt, maxRetries)
        delayMs == ComputeDelay(rs.attempt, baseDelayMs, IsRateLimit(err))
        more == LoopContinues(rs.attempt + 1, maxRetries)
    IN  [rs EXCEPT
            !.lastError = err,
            !.delays = IF waits THEN Append(@, delayMs) ELSE @,
            !.waited = IF waits THEN @ + delayMs ELSE @,
            !.attempt = @ + 1,
            !.status = IF more THEN "running" ELSE "thrown",
            !.error = IF more THEN NoError ELSE err]


(***************************************************************************)
(* JavaScript values, as JSON.parse produces them, and the conversions     *)
(* validateReceiptData applies to them.  Numbers are integers here.        *)
(***************************************************************************)

JsUndefined == [t |-> "undefined"]
JsNull == [t |-> "null"]
JsNaN == [t |-> "nan"]
JsNum(n) == [t |-> "num", v |-> n]
JsStr(s) == [t |-> "str", v |-> s]
JsBool(b) == [t |-> "bool", v |-> b]
JsArr(q) == [t |-> "arr", v |-> q]
JsObj(f) == [t |-> "obj", v |-> f]
EmptyObj == JsObj(<<>>)

\* !x is false
Truthy(x) ==
    CASE x.t \in {"undefined", "null", "nan"} -> FALSE
      [] x.t = "num" -> x.v # 0
      [] x.t = "str" -> x.v # <<>>
      [] x.t = "bool" -> x.v
      [] OTHER -> TRUE

\* typeof x === "object"
TypeofIsObject(x) == x.t \in {"null", "arr", "obj"}

\* x || fallback
JsOr(x, fallback) == IF Truthy(x) THEN x ELSE fallback

\* x.key throws a TypeError
GetThrows(x) == x.t \in {"undefined", "null"}

\* x.key for the keys the receipt schema reads (none is "length" or a method)
Get(x, key) ==
    IF x.t = "obj" /\ key \in DOMAIN x.v THEN x.v[key] ELSE JsUndefined

Digits == <<"0", "1", "2", "3", "4", "5", "6", "7", "8", "9">>

IsDigit(c) == \E d \in 1..10 : Digits[d] = c

DigitValue(c) == (CHOOSE d \in 1..10 : Digits[d] = c) - 1

RECURSIVE NatToStr(_)
NatToStr(n) ==
    IF n < 10 THEN <<Digits[n + 1]>>
    ELSE Append(NatToStr(n \div 10), Digits[(n % 10) + 1])

IntToStr(n) == IF n < 0 THEN <<"-">> \o NatToStr(-n) ELSE NatToStr(n)

IsSpace(c) == c \in {" ", "\n", "\t"}

RECURSIVE TrimStart(_)
TrimStart(s) ==
    IF s # <<>> /\ IsSpace(s[1]) THEN TrimStart(Tail(s)) ELSE s

RECURSIVE TrimEnd(_)
TrimEnd(s) ==
    IF s # <<>> /\ IsSpace(s[Len(s)]) THEN TrimEnd(SubSeq(s, 1, Len(s) - 1))
    ELSE s

\* String.prototype.trim
Trim(s) == TrimEnd(TrimStart(s))

LowerLetters == <<"a", "b", "c", "d", "e", "f", "g", "h", "i", "j", "k", "l", "m",
                  "n", "o", "p", "q", "r", "s", "t", "u", "v", "w", "x", "y", "z">>
UpperLetters == <<"A", "B", "C", "D", "E", "F", "G", "H", "I", "J", "K", "L", "M",
                  "N", "O", "P", "Q", "R", "S", "T", "U", "V", "W", "X", "Y", "Z">>

UpperChar(c) ==
    IF \E k \in 1..26 : LowerLetters[k] = c
    THEN UpperLetters[CHOOSE k \in 1..26 : LowerLetters[k] = c]
    ELSE c

\* String.prototype.toUpperCase
ToUpperCase(s) == [k \in 1..Len(s) |-> UpperChar(s[k])]

LowerChar(c) ==
    IF \E k \in 1..26 : UpperLetters[k] = c
    THEN LowerLetters[CHOOSE k \in 1..26 : UpperLetters[k] = c]
    ELSE c

\* String.prototype.toLowerCase
ToLowerCase(s) == [k \in 1..Len(s) |-> LowerChar(s[k])]

\* String.prototype.endsWith
EndsWith(s, suffix) ==
    /\ Len(s) >= Len(suffix)
    /\ SubSeq(s, Len(s) - Len(suffix) + 1, Len(s)) = suffix

RECURSIVE DigitsToNat(_)
DigitsToNat(s) ==
    IF s = <<>> THEN 0
    ELSE 10 * DigitsToNat(SubSeq(s, 1, Len(s) - 1)) + DigitValue(s[Len(s)])

AllDigits(s) == s # <<>> /\ \A k \in 1..Len(s) : IsDigit(s[k])

\* Number(s) for a string: blank is 0, an optionally signed run of digits is
\* its value, anything else is NaN.
StrToNumber(s) ==
    LET u == Trim(s)
    IN  IF u = <<>> THEN JsNum(0)
        ELSE IF AllDigits(u) THEN JsNum(DigitsToNat(u))
        ELSE IF u[1] = "-" /\ AllDigits(Tail(u)) THEN JsNum(-DigitsToNat(Tail(u)))
        ELSE IF u[1] = "+" /\ AllDigits(Tail(u)) THEN JsNum(DigitsToNat(Tail(u)))
        ELSE JsNaN

StrObjectObject == <<"[", "o", "b", "j", "e", "c", "t", " ", "O", "b", "j", "e", "c", "t", "]">>
StrNull == <<"n", "u", "l", "l">>
StrUndefined == <<"u", "n", "d", "e", "f", "i", "n", "e", "d">>
StrNaN == <<"N", "a", "N">>
StrTrue == <<"t", "r", "u", "e">>
StrFalse == <<"f", "a", "l", "s", "e">>

RECURSIVE JsToString(_)
RECURSIVE JoinElements(_)
\* Array.prototype.join(","): null and undefined elements print as "".
JoinElements(q) ==
    IF q = <<>> THEN <<>>
    ELSE LET head == IF q[1].t \in {"null", "undefined"} THEN <<>>
                     ELSE JsToString(q[1])
         IN  IF Len(q) = 1 THEN head
             ELSE head \o <<",">> \o JoinElements(Tail(q))

\* String(x)
JsToString(x) ==
    CASE x.t = "str" -> x.v
      [] x.t = "num" -> IntToStr(x.v)
      [] x.t = "nan" -> StrNaN
      [] x.t = "bool" -> IF x.v THEN StrTrue ELSE StrFalse
      [] x.t = "null" -> StrNull
      [] x.t = "undefined" -> StrUndefined
      [] x.t = "arr" -> JoinElements(x.v)
      [] OTHER -> StrObjectObject

\* Number(x)
JsToNumber(x) ==
    CASE x.t = "num" -> x
      [] x.t = "nan" -> JsNaN
      [] x.t = "str" -> StrToNumber(x.v)
      [] x.t = "bool" -> JsNum(IF x.v THEN 1 ELSE 0)
      [] x.t = "null" -> JsNum(0)
      [] x.t = "undefined" -> JsNaN
      [] x.t = "arr" -> StrToNumber(JoinElements(x.v))
      [] OTHER -> JsNaN

\* String(x || fallback).trim(), fallback a text
TextOr(x, fallback) == Trim(JsToString(JsOr(x, JsStr(fallback))))

\* Number(x) || fallback, fallback a number
NumberOr(x, fallback) ==
    LET n == JsToNumber(x) IN IF Truthy(n) THEN n.v ELSE fallback

(***************************************************************************)
(* validateReceiptData                                                     *)
(***************************************************************************)

MsgInvalidStructure == <<"I", "n", "v", "a", "l", "i", "d", " ", "r", "e", "c", "e", "i", "p", "t", " ", "d", "a", "t", "a", " ", "s", "t", "r", "u", "c", "t", "u", "r", "e">>
MsgCannotReadNull == <<"C", "a", "n", "n", "o", "t", " ", "r", "e", "a", "d", " ", "p", "r", "o", "p", "e", "r", "t", "i", "e", "s", " ", "o", "f", " ", "n", "u", "l", "l">>
TextUnknownMerchant == <<"U", "n", "k", "n", "o", "w", "n", " ", "M", "e", "r", "c", "h", "a", "n", "t">>
TextUnknown == <<"U", "n", "k", "n", "o", "w", "n">>
TextItem == <<"I", "t", "e", "m">>
TextUSD == <<"U", "S", "D">>
TextREC == <<"R", "E", "C">>

\* What new Date().toISOString().split("T")[0] and Date.now() give.
Clock == [today |-> <<"2", "0", "2", "5", "-", "1", "1", "-", "1", "2">>, nowMs |-> 1731]

Returned(value) == [ok |-> TRUE, value |-> value, error |-> NoError]
Raised(thrown) == [ok |-> FALSE, value |-> JsUndefined, error |-> thrown]

\* if (!data || typeof data !== "object") throw ...
RootIsRejected(data) == ~Truthy(data) \/ ~TypeofIsObject(data)

\* The callback of d.items.map, for an item on which property reads succeed.
ValidateItem(item) ==
    [name |-> TextOr(Get(item, "name"), TextItem),
     quantity |-> NumberOr(Get(item, "quantity"), 1),
     unitPrice |-> NumberOr(Get(item, "unitPrice"), 0),
     totalPrice |-> NumberOr(Get(item, "totalPrice"), 0)]

validateReceiptData(data) ==
    IF RootIsRejected(data)
    THEN Raised(Thrown("Error", MsgInvalidStructure))
    ELSE
    LET merchant == JsOr(Get(data, "merchant"), EmptyObj)
        transaction == JsOr(Get(data, "transaction"), EmptyObj)
        totals == JsOr(Get(data, "totals"), EmptyObj)
        items == Get(data, "items")
    IN  IF items.t = "arr" /\ \E k \in 1..Len(items.v) : GetThrows(items.v[k])
        THEN Raised(Thrown("Error", MsgCannotReadNull))
        ELSE Returned(
          [merchant |->
             [name |-> TextOr(Get(merchant, "name"), TextUnknownMerchant),
              address |-> TextOr(Get(merchant, "address"), <<>>),
              contact |-> TextOr(Get(merchant, "contact"), <<>>)],
           transaction |->
             [date |-> TextOr(Get(transaction, "date"), Clock.today),
              receipt_number |->
                TextOr(Get(transaction, "receipt_number"),
                       TextREC \o NatToStr(Clock.nowMs)),
              payment_method |->
                TextOr(Get(transaction, "payment_method"), TextUnknown)],
           items |->
             IF items.t = "arr"
             THEN [k \in 1..Len(items.v) |-> ValidateItem(items.v[k])]
             ELSE <<>>,
           totals |->
             [subtotal |-> NumberOr(Get(totals, "subtotal"), 0),
              tax |-> NumberOr(Get(totals, "tax"), 0),
              total |-> NumberOr(Get(totals, "total"), 0),
              currency |->
                ToUpperCase(JsToString(JsOr(Get(totals, "currency"),
                                            JsStr(TextUSD))))]])

(***************************************************************************)
(* extractAndSavePDF: values                                               *)
(***************************************************************************)

\* retries: 3 in createFunction
Retries == 3
ProbeRateLimitWaitMs == 5000

MsgFetch404 == <<"P", "D", "F", " ", "f", "e", "t", "c", "h", " ", "f", "a", "i", "l", "e", "d", ":", " ", "4", "0", "4", " ", "N", "o", "t", " ", "F", "o", "u", "n", "d">>
MsgFetch429 == <<"P", "D", "F", " ", "f", "e", "t", "c", "h", " ", "f", "a", "i", "l", "e", "d", ":", " ", "4", "2", "9", " ", "T", "o", "o", " ", "M", "a", "n", "y", " ", "R", "e", "q", "u", "e", "s", "t", "s">>
MsgAborted == <<"T", "h", "i", "s", " ", "o", "p", "e", "r", "a", "t", "i", "o", "n", " ", "w", "a", "s", " ", "a", "b", "o", "r", "t", "e", "d">>
MsgPdfEmpty == <<"P", "D", "F", " ", "f", "i", "l", "e", " ", "i", "s", " ", "e", "m", "p", "t", "y">>
MsgKeyMissing == <<"G", "E", "M", "I", "N", "I", "_", "A", "P", "I", "_", "K", "E", "Y", " ", "e", "n", "v", "i", "r", "o", "n", "m", "e", "n", "t", " ", "v", "a", "r", "i", "a", "b", "l", "e", " ", "i", "s", " ", "n", "o", "t", " ", "c", "o", "n", "f", "i", "g", "u", "r", "e", "d", ".", " ", "S", "e", "t", " ", "i", "t", " ", "i", "n", " ", ".", "e", "n", "v", ".", "l", "o", "c", "a", "l">>
MsgKeyInvalid == <<"G", "E", "M", "I", "N", "I", "_", "A", "P", "I", "_", "K", "E", "Y", " ", "i", "s", " ", "i", "n", "v", "a", "l", "i", "d", " ", "o", "r", " ", "e", "x", "p", "i", "r", "e", "d", ".", " ", "G", "e", "t", " ", "a", " ", "n", "e", "w", " ", "k", "e", "y", " ", "f", "r", "o", "m", " ", "h", "t", "t", "p", "s", ":", "/", "/", "m", "a", "k", "e", "r", "s", "u", "i", "t", "e", ".", "g", "o", "o", "g", "l", "e", ".", "c", "o", "m", "/", "a", "p", "p", "/", "a", "p", "i", "k", "e", "y">>
MsgKeyForbidden == <<"G", "E", "M", "I", "N", "I", "_", "A", "P", "I", "_", "K", "E", "Y", " ", "l", "a", "c", "k", "s", " ", "p", "e", "r", "m", "i", "s", "s", "i", "o", "n", "s", " ", "o", "r", " ", "q", "u", "o", "t", "a", " ", "i", "s", " ", "e", "x", "h", "a", "u", "s", "t", "e", "d", ".", " ", "C", "h", "e", "c", "k", " ", "y", "o", "u", "r", " ", "A", "P", "I", " ", "q", "u", "o", "t", "a", ".">>
MsgRateLimited == <<"R", "a", "t", "e", " ", "l", "i", "m", "i", "t", "e", "d", " ", "b", "y", " ", "G", "e", "m", "i", "n", "i", " ", "A", "P", "I", ".", " ", "W", "a", "i", "t", "i", "n", "g", " ", "b", "e", "f", "o", "r", "e", " ", "r", "e", "t", "r", "y", ".", ".", ".">>
MsgCannotReach == <<"C", "a", "n", "n", "o", "t", " ", "r", "e", "a", "c", "h", " ", "G", "e", "m", "i", "n", "i", " ", "A", "P", "I", ".", " ", "C", "h", "e", "c", "k", " ", "f", "i", "r", "e", "w", "a", "l", "l", "/", "n", "e", "t", "w", "o", "r", "k", " ", "a", "c", "c", "e", "s", "s", " ", "t", "o", " ", "g", "e", "n", "e", "r", "a", "t", "i", "v", "e", "l", "a", "n", "g", "u", "a", "g", "e", ".", "g", "o", "o", "g", "l", "e", "a", "p", "i", "s", ".", "c", "o", "m">>
MsgNotJson == <<"A", "I", " ", "r", "e", "s", "p", "o", "n", "s", "e", " ", "i", "s", " ", "n", "o", "t", " ", "v", "a", "l", "i", "d", " ", "J", "S", "O", "N", ":", " ", "U", "n", "e", "x", "p", "e", "c", "t", "e", "d", " ", "t", "o", "k", "e", "n">>
MsgMutationFailed == <<"S", "e", "r", "v", "e", "r", " ", "E", "r", "r", "o", "r">>
MsgTrackFailed == <<"t", "r", "a", "c", "k", " ", "f", "a", "i", "l", "e", "d">>

Tok401 == <<"4", "0", "1">>
TokUnauthorized == <<"U", "n", "a", "u", "t", "h", "o", "r", "i", "z", "e", "d">>
Tok403 == <<"4", "0", "3">>
TokForbidden == <<"F", "o", "r", "b", "i", "d", "d", "e", "n">>
TokRateLimit == <<"R", "a", "t", "e", " ", "l", "i", "m", "i", "t">>
TokErrorFetching == <<"E", "r", "r", "o", "r", " ", "f", "e", "t", "c", "h", "i", "n", "g">>

\* Messages model.generateContent fails with.
MsgGen401 == <<"[", "4", "0", "1", " ", "U", "n", "a", "u", "t", "h", "o", "r", "i", "z", "e", "d", "]">>
MsgGen403 == <<"[", "4", "0", "3", " ", "F", "o", "r", "b", "i", "d", "d", "e", "n", "]">>
MsgGen429 == <<"[", "4", "2", "9", " ", "T", "o", "o", " ", "M", "a", "n", "y", " ", "R", "e", "q", "u", "e", "s", "t", "s", "]">>
MsgGenNetwork == <<"E", "r", "r", "o", "r", " ", "f", "e", "t", "c", "h", "i", "n", "g", " ", "f", "r", "o", "m", " ", "g", "e", "n", "e", "r", "a", "t", "e", "C", "o", "n", "t", "e", "n", "t", ":", " ", "f", "e", "t", "c", "h", " ", "f", "a", "i", "l", "e", "d">>
MsgGen500 == <<"[", "5", "0", "0", " ", "I", "n", "t", "e", "r", "n", "a", "l", " ", "S", "e", "r", "v", "e", "r", " ", "E", "r", "r", "o", "r", "]">>

\* Bodies the document URL may serve: nothing, a PDF, something else.
DocEmpty == <<>>
DocPdf == <<"%", "P", "D", "F", "-", "1", ".", "4">>
DocOther == <<"<", "h", "t", "m", "l", ">">>
Docs == {DocEmpty, DocPdf, DocOther}

\* Variant: a length test that no buffer meets.
NeverEmpty(doc) == Len(doc) < 0

\* pdfBuffer.byteLength === 0
IsEmptyDoc(doc) == Len(doc) = 0

\* pdfSignature.startsWith("%PDF") fails: a warning only
HeaderInvalid(doc) == Len(doc) < 4 \/ SubSeq(doc, 1, 4) # <<"%", "P", "D", "F">>

\* What the document fetch may throw (lines 141-148).
FetchThrowables ==
    {Thrown("Error", MsgFetch404), Thrown("Error", MsgFetch429),
     Thrown("Error", MsgAborted)}

\* What model.generateContent may throw.
GenThrowables ==
    {Thrown("Error", MsgGen401), Thrown("Error", MsgGen403),
     Thrown("Error", MsgGen429), Thrown("Error", MsgGenNetwork),
     Thrown("Error", MsgGen500)}

\* Outcomes of the connectivity probe: an HTTP status, or a thrown error.
ProbeOutcomes == {"200", "401", "403", "429", "500", "timeout", "network"}

\* What the model's reply is once the code fences are stripped: text that
\* JSON.parse rejects, or text that parses to a value.
NotJson == [valid |-> FALSE, value |-> JsUndefined]
Json(value) == [valid |-> TRUE, value |-> value]

ReplyAcme ==
    Json(JsObj([merchant |-> JsObj([name |-> JsStr(<<"A", "c", "m", "e">>)]),
                totals |-> JsObj([total |-> JsNum(12),
                                  currency |-> JsStr(<<"u", "s", "d">>)]),
                items |-> JsArr(<<JsObj([name |-> JsStr(<<"T", "e", "a">>),
                                        quantity |-> JsStr(<<"2">>)])>>)]))

Replies ==
    {NotJson, Json(JsNum(42)), Json(JsNull), Json(EmptyObj), ReplyAcme,
     Json(JsObj([items |-> JsArr(<<JsNull>>)]))}

(***************************************************************************)
(* uploadPDF (src/actions/uploadPDF.ts): values                            *)
(***************************************************************************)

MsgNotAuthenticated == <<"U", "s", "e", "r", " ", "n", "o", "t", " ", "a", "u", "t", "h", "e", "n", "t", "i", "c", "a", "t", "e", "d">>
MsgNoFile == <<"N", "o", " ", "f", "i", "l", "e", " ", "p", "r", "o", "v", "i", "d", "e", "d">>
MsgOnlyPdf == <<"O", "n", "l", "y", " ", "P", "D", "F", " ", "f", "i", "l", "e", "s", " ", "a", "r", "e", " ", "a", "l", "l", "o", "w", "e", "d">>
MsgUploadFailed == <<"F", "a", "i", "l", "e", "d", " ", "t", "o", " ", "u", "p", "l", "o", "a", "d", " ", "f", "i", "l", "e", " ", ":", "I", "n", "t", "e", "r", "n", "a", "l", " ", "S", "e", "r", "v", "e", "r", " ", "E", "r", "r", "o", "r">>
MsgFetchFailed == <<"f", "e", "t", "c", "h", " ", "f", "a", "i", "l", "e", "d">>
MsgUrlNotFound == <<"D", "o", "w", "n", "l", "o", "a", "d", " ", "U", "R", "L", " ", "n", "o", "t", " ", "f", "o", "u", "n", "d">>
MsgSendFailed == <<"i", "n", "n", "g", "e", "s", "t", " ", "u", "n", "r", "e", "a", "c", "h", "a", "b", "l", "e">>

TokPdf == <<"p", "d", "f">>
TokDotPdf == <<".", "p", "d", "f">>

TypePdf == <<"a", "p", "p", "l", "i", "c", "a", "t", "i", "o", "n", "/", "p", "d", "f">>
TypeText == <<"t", "e", "x", "t", "/", "p", "l", "a", "i", "n">>
TypeNone == <<>>

NameLower == <<"a", ".", "p", "d", "f">>
NameUpper == <<"A", ".", "P", "D", "F">>
NameTxt == <<"a", ".", "t", "x", "t">>
NamePdfTxt == <<"p", "d", "f", ".", "t", "x", "t">>

\* formData.get("file"): no entry, or a File with its type and name.
NoFile == [present |-> FALSE, type |-> <<>>, name |-> <<>>]
File(type, name) == [present |-> TRUE, type |-> type, name |-> name]

Files ==
    {NoFile} \cup
    {File(t, n) : t \in {TypePdf, TypeText, TypeNone},
                  n \in {NameLower, NameUpper, NameTxt, NamePdfTxt}}

\* What convex hands out.
DownloadUrl == JsStr(<<"h", "t", "t", "p", "s", ":", "/", "/", "d", "o", "w", "n">>)
ReceiptId == "receipt1"

\* The values uploadPDF returns.
NoResult == [returned |-> FALSE, success |-> FALSE, error |-> <<>>,
             receiptId |-> "none", fileName |-> <<>>]
Failure(message) ==
    [returned |-> TRUE, success |-> FALSE, error |-> message,
     receiptId |-> "none", fileName |-> <<>>]
Success(receiptId, fileName) ==
    [returned |-> TRUE, success |-> TRUE, error |-> <<>>,
     receiptId |-> receiptId, fileName |-> fileName]

\* getFileDownloadUrl has not been called.
NoFileUrl == [success |-> FALSE, downloadUrl |-> JsUndefined, error |-> <<>>]

\* A call of uploadPDF with its inputs, before its first statement.
UpStart(user, file) ==
    [pc |-> "start", user |-> user, file |-> file, urlRequests |-> 0,
     uploads |-> 0, stored |-> 0, lookups |-> 0, fileUrl |-> NoFileUrl,
     sends |-> 0, events |-> <<>>, sendThrew |-> FALSE, result |-> NoResult]

UpIdle == [UpStart(FALSE, NoFile) EXCEPT !.pc = "idle"]

(***************************************************************************)
(* State                                                                   *)
(***************************************************************************)

VARIABLES
    \* --- one call of retryWithBackoff on a scripted operation ---
    rMaxRetries,    \* argument maxRetries
    rBaseDelayMs,   \* argument baseDelayMs
    opFailures,     \* the operation fails on its first opFailures invocations
    opCalls,        \* how often the operation has been invoked
    opLog,          \* what each failed invocation threw, in order
    rs,             \* the state of the retryWithBackoff call
    \* --- one run of extractAndSavePDF for one inbound event ---
    pc,             \* where the handler, or the scheduler driving it, stands
    keySet,         \* process.env.GEMINI_API_KEY is configured
    memo,           \* step.run checkpoints: the result of each finished step
    stepRetries,    \* scheduler retries used, per step
    stepError,      \* what the last failed step execution threw
    fetchRetry,     \* retryWithBackoff around the document fetch
    genRetry,       \* retryWithBackoff around model.generateContent
    ex,             \* the current execution of the extract step
    sv,             \* the current execution of the save step
    job,            \* effects and executions counted over the whole job
    \* --- one call of validateReceiptData ---
    nData,          \* argument data
    nResult,        \* what the call returned or threw
    \* --- one call of uploadPDF ---
    up              \* the call: its inputs, position, effects and result

retryVars == <<rMaxRetries, rBaseDelayMs, opFailures, opCalls, opLog, rs>>

jobVars ==
    <<pc, keySet, memo, stepRetries, stepError, fetchRetry, genRetry, ex, sv, job>>

normVars == <<nData, nResult>>

vars == <<retryVars, jobVars, normVars, up>>

(***************************************************************************)
(* extractAndSavePDF: the handler and the scheduler that drives it         *)
(***************************************************************************)

RetryIdle == [RetryStart(MaxRetriesDefault) EXCEPT !.status = "idle"]

NoMemo == [done |-> FALSE, value |-> JsUndefined]
Memoized(value) == [done |-> TRUE, value |-> value]

ExIdle ==
    [fetchCalls |-> 0, probeCalls |-> 0, genCalls |-> 0, fetched |-> FALSE,
     doc |-> DocEmpty, headerWarned |-> FALSE, probeWaitMs |-> 0,
     probeThrew |-> FALSE]

SvIdle ==
    [mutationCalls |-> 0, mutationOk |-> FALSE, trackCalls |-> 0,
     trackOk |-> FALSE]

JobStart ==
    [extractExecs |-> 0, saveExecs |-> 0, mutationsOk |-> 0, usageEvents |-> 0,
     dbArgs |-> JsUndefined, result |-> "none", settledFrom |-> "none"]

\* event.data of the inbound event
EventData == [url |-> "https://x/receipt.pdf", receiptId |-> "r1"]
UserId == "user_1"

JobIdle ==
    /\ pc = "idle"
    /\ keySet = TRUE
    /\ memo = [extract |-> NoMemo, save |-> NoMemo]
    /\ stepRetries = [extract |-> 0, save |-> 0]
    /\ stepError = NoError
    /\ fetchRetry = RetryIdle
    /\ genRetry = RetryIdle
    /\ ex = ExIdle
    /\ sv = SvIdle
    /\ job = JobStart

\* Variant: the callback runs on every invocation, checkpoint or not.
StepRunAlwaysExecutes(m, id) == TRUE

\* step.run(id, fn) runs fn unless the scheduler holds a result for id.
StepRunExecutes(m, id) == ~m[id].done

\* Variant: the handler goes to the save step without the extract step.
HandlerSkipsExtract(m) ==
    IF StepRunExecutes(m, "save") THEN "save" ELSE "return"

\* The handler body from the top: the first step not yet checkpointed runs;
\* with both checkpointed the body reaches its return statement.
HandlerNext(m) ==
    IF StepRunExecutes(m, "extract") THEN "extract"
    ELSE IF StepRunExecutes(m, "save") THEN "save"
    ELSE "return"

\* Variant: the credential check never fires.
KeyNeverMissing(key) == FALSE

\* !process.env.GEMINI_API_KEY
KeyMissing(key) == ~key

\* Variant: a zero-length body is not checked for.
AfterFetchSkipsEmptyCheck(doc, key) ==
    IF KeyMissing(key) THEN Raised(Thrown("Error", MsgKeyMissing))
    ELSE Returned(JsUndefined)

\* Lines 155-186: what follows a fetched document up to the first AI call.
AfterFetch(doc, key) ==
    IF IsEmptyDoc(doc) THEN Raised(Thrown("Error", MsgPdfEmpty))
    ELSE IF KeyMissing(key) THEN Raised(Thrown("Error", MsgKeyMissing))
    ELSE Returned(JsUndefined)

\* The probe's try block throws: on 401 and 403, and when the fetch rejects.
ProbeThrowsInside(outcome) == outcome \in {"401", "403", "timeout", "network"}

\* Variant: the catch block passes the API-key errors on.
ProbeCatchRethrowsKeyErrors(outcome) == outcome \in {"401", "403"}

\* The probe's catch block (lines 215-226) logs and does not rethrow.
ProbeCatchRethrows(outcome) == FALSE

ProbeFails(outcome) == ProbeThrowsInside(outcome) /\ ProbeCatchRethrows(outcome)

ProbeWaitMs(outcome) == IF outcome = "429" THEN ProbeRateLimitWaitMs ELSE 0

\* Lines 294-324: the catch around the extraction request.
RemapGenError(err) ==
    IF Includes(err.message, Tok401) \/ Includes(err.message, TokUnauthorized)
    THEN Thrown("Error", MsgKeyInvalid)
    ELSE IF Includes(err.message, Tok403) \/ Includes(err.message, TokForbidden)
    THEN Thrown("Error", MsgKeyForbidden)
    ELSE IF Includes(err.message, Tok429) \/ Includes(err.message, TokRateLimit)
    THEN Thrown("Error", MsgRateLimited)
    ELSE IF Includes(err.message, TokErrorFetching)
    THEN Thrown("Error", MsgCannotReach)
    ELSE err

\* Lines 326-360: JSON.parse of the cleaned reply, then validateReceiptData.
ParseAndValidate(reply) ==
    IF ~reply.valid THEN Raised(Thrown("Error", MsgNotJson))
    ELSE validateReceiptData(reply.value)

TextReceipt == <<"R", "e", "c", "e", "i", "p", "t">>

\* Lines 376-387: the arguments of updateReceiptWithExtractedData.
MutationArgs(receiptId, d) ==
    [id |-> receiptId,
     fileDisplayName |->
        IF d.merchant.name # <<>> THEN d.merchant.name ELSE TextReceipt,
     merchantName |-> d.merchant.name,
     merchantAddress |-> d.merchant.address,
     merchantContact |-> d.merchant.contact,
     transactionDate |-> d.transaction.date,
     transactionAmount |-> d.totals.total,
     receiptSummary |->
        <<"R", "e", "c", "e", "i", "p", "t", " ", "f", "r", "o", "m", " ">> \o d.merchant.name
        \o <<" ", "o", "n", " ">> \o d.transaction.date
        \o <<" ", "f", "o", "r", " ">> \o d.totals.currency \o <<" ">>
        \o IntToStr(d.totals.total) \o <<".", " ">>
        \o NatToStr(Len(d.items)) \o <<" ", "i", "t", "e", "m", "(", "s", ")", " ", "p", "u", "r", "c", "h", "a", "s", "e", "d", ".">>,
     currency |-> d.totals.currency,
     items |-> d.items]

\* Lines 405-413: what the save step returns.
SaveResult(receiptId, userId, d) ==
    [success |-> TRUE, userId |-> userId, receiptId |-> receiptId,
     merchantName |-> d.merchant.name, totalAmount |-> d.totals.total,
     currency |-> d.totals.currency, itemCount |-> Len(d.items)]

\* Variant: the usage report follows the mutation whatever its result.
AfterMutationAlwaysTracks(ok) == "track"

\* The mutation's result decides whether client.track is reached.
AfterMutation(ok) == IF ok THEN "track" ELSE "saveFailed"

\* client.track rejecting inside the step's try: the catch logs and rethrows
\* (lines 414-417), so the step fails.
AfterTrackFailure == "saveFailed"

JobInit ==
    /\ pc = "pending"
    /\ keySet \in BOOLEAN
    /\ memo = [extract |-> NoMemo, save |-> NoMemo]
    /\ stepRetries = [extract |-> 0, save |-> 0]
    /\ stepError = NoError
    /\ fetchRetry = RetryIdle
    /\ genRetry = RetryIdle
    /\ ex = ExIdle
    /\ sv = SvIdle
    /\ job = JobStart

\* The scheduler invokes the handler; step.run("extract-pdf-data") executes.
\* What the previous execution left behind is gone.
BeginExtract ==
    /\ pc \in {"pending", "replay"}
    /\ HandlerNext(memo) = "extract"
    /\ pc' = "fetch"
    /\ fetchRetry' = RetryStart(MaxRetriesDefault)
    /\ genRetry' = RetryIdle
    /\ ex' = ExIdle
    /\ stepError' = NoError
    /\ sv' = SvIdle
    /\ job' = [job EXCEPT !.extractExecs = @ + 1]
    /\ UNCHANGED <<keySet, memo, stepRetries, retryVars, normVars, up>>

\* One attempt of the document fetch returns a body; lines 155-186 follow.
FetchSucceeds ==
    /\ pc = "fetch"
    /\ fetchRetry.status = "running"
    /\ \E doc \in Docs :
        LET next == AfterFetch(doc, keySet)
            pdfBuffer == RetryOnSuccess(fetchRetry, doc).result
        IN  /\ fetchRetry' = RetryIdle
            /\ ex' = [ex EXCEPT !.fetchCalls = @ + 1,
                                !.fetched = TRUE,
                                !.doc = pdfBuffer,
                                !.headerWarned =
                                    ~IsEmptyDoc(doc) /\ HeaderInvalid(doc)]
            /\ pc' = IF next.ok THEN "probe" ELSE "extractFailed"
            /\ stepError' = next.error
    /\ UNCHANGED <<keySet, memo, stepRetries, genRetry, sv, job, retryVars, normVars, up>>

\* One attempt of the document fetch throws (bad status, abort, network).
FetchFails ==
    /\ pc = "fetch"
    /\ fetchRetry.status = "running"
    /\ \E t \in FetchThrowables :
        LET r == RetryOnFailure(fetchRetry, t, MaxRetriesDefault, BaseDelayDefault)
        IN  /\ fetchRetry' = r
            /\ pc' = IF r.status = "thrown" THEN "extractFailed" ELSE "fetch"
            /\ stepError' = r.error
    /\ ex' = [ex EXCEPT !.fetchCalls = @ + 1]
    /\ UNCHANGED <<keySet, memo, stepRetries, genRetry, sv, job, retryVars, normVars, up>>

\* The connectivity probe against the AI provider (lines 188-226).
Probe ==
    /\ pc = "probe"
    /\ \E outcome \in ProbeOutcomes :
        /\ ex' = [ex EXCEPT !.probeCalls = @ + 1,
                            !.probeWaitMs = @ + ProbeWaitMs(outcome),
                            !.probeThrew = ProbeThrowsInside(outcome)]
        /\ pc' = IF ProbeFails(outcome) THEN "extractFailed" ELSE "generate"
    /\ genRetry' = RetryStart(MaxRetriesDefault)
    /\ UNCHANGED <<keySet, memo, stepRetries, stepError, fetchRetry, sv, job,
                   retryVars, normVars, up>>

\* One attempt of generateContent returns; the reply is parsed and validated,
\* and the step returns the receipt, which the scheduler checkpoints.
GenerateSucceeds ==
    /\ pc = "generate"
    /\ genRetry.status = "running"
    /\ \E reply \in Replies :
        LET out == ParseAndValidate(RetryOnSuccess(genRetry, reply).result)
        IN  /\ genRetry' = RetryIdle
            /\ pc' = IF out.ok THEN "replay" ELSE "extractFailed"
            /\ stepError' = out.error
            /\ memo' = IF out.ok
                       THEN [memo EXCEPT !.extract = Memoized(out.value)]
                       ELSE memo
    /\ ex' = [ex EXCEPT !.genCalls = @ + 1]
    /\ UNCHANGED <<keySet, stepRetries, fetchRetry, sv, job, retryVars, normVars, up>>

\* One attempt of generateContent throws.
GenerateFails ==
    /\ pc = "generate"
    /\ genRetry.status = "running"
    /\ \E t \in GenThrowables :
        LET r == RetryOnFailure(genRetry, t, MaxRetriesDefault, BaseDelayDefault)
        IN  /\ genRetry' = r
            /\ pc' = IF r.status = "thrown" THEN "extractFailed" ELSE "generate"
            /\ stepError' = IF r.status = "thrown" THEN RemapGenError(r.error)
                            ELSE NoError
    /\ ex' = [ex EXCEPT !.genCalls = @ + 1]
    /\ UNCHANGED <<keySet, memo, stepRetries, fetchRetry, sv, job, retryVars, normVars, up>>

\* The scheduler invokes the handler; the extract step is checkpointed and
\* step.run("save-to-database") executes.
BeginSave ==
    /\ pc \in {"pending", "replay"}
    /\ HandlerNext(memo) = "save"
    /\ pc' = "mutation"
    /\ sv' = SvIdle
    /\ stepError' = NoError
    /\ fetchRetry' = RetryIdle
    /\ genRetry' = RetryIdle
    /\ ex' = ExIdle
    /\ job' = [job EXCEPT !.saveExecs = @ + 1]
    /\ UNCHANGED <<keySet, memo, stepRetries, retryVars, normVars, up>>

\* convex.mutation(updateReceiptWithExtractedData) returns { userId }.
MutationSucceeds ==
    /\ pc = "mutation"
    /\ pc' = AfterMutation(TRUE)
    /\ sv' = [sv EXCEPT !.mutationCalls = @ + 1, !.mutationOk = TRUE]
    /\ job' = [job EXCEPT
                 !.mutationsOk = @ + 1,
                 !.dbArgs = MutationArgs(EventData.receiptId, memo.extract.value)]
    /\ UNCHANGED <<keySet, memo, stepRetries, stepError, fetchRetry, genRetry, ex,
                   retryVars, normVars, up>>

\* convex.mutation rejects.
MutationFails ==
    /\ pc = "mutation"
    /\ pc' = AfterMutation(FALSE)
    /\ sv' = [sv EXCEPT !.mutationCalls = @ + 1]
    /\ stepError' = Thrown("Error", MsgMutationFailed)
    /\ UNCHANGED <<keySet, memo, stepRetries, fetchRetry, genRetry, ex, job,
                   retryVars, normVars, up>>

\* client.track resolves; the step returns and is checkpointed.
TrackSucceeds ==
    /\ pc = "track"
    /\ pc' = "replay"
    /\ sv' = [sv EXCEPT !.trackCalls = @ + 1, !.trackOk = TRUE]
    /\ job' = [job EXCEPT !.usageEvents = @ + 1]
    /\ memo' = [memo EXCEPT !.save =
                  Memoized(SaveResult(EventData.receiptId, UserId,
                                      memo.extract.value))]
    /\ UNCHANGED <<keySet, stepRetries, stepError, fetchRetry, genRetry, ex,
                   retryVars, normVars, up>>

\* client.track rejects.
TrackFails ==
    /\ pc = "track"
    /\ pc' = AfterTrackFailure
    /\ sv' = [sv EXCEPT !.trackCalls = @ + 1]
    /\ stepError' = Thrown("Error", MsgTrackFailed)
    /\ UNCHANGED <<keySet, memo, stepRetries, fetchRetry, genRetry, ex, job,
                   retryVars, normVars, up>>

FailedStep == IF pc = "extractFailed" THEN "extract" ELSE "save"

\* Variant: a retry is not counted against the step's budget.
RetryNotCounted(n) == n

\* Each scheduler retry of a step uses up one of its retries.
RetriesUsedAfter(n) == n + 1

\* A step threw and the scheduler has retries left for it: it runs the handler
\* again.
ScheduleRetry ==
    /\ pc \in {"extractFailed", "saveFailed"}
    /\ stepRetries[FailedStep] < Retries
    /\ stepRetries' = [stepRetries EXCEPT ![FailedStep] = RetriesUsedAfter(@)]
    /\ pc' = "replay"
    /\ UNCHANGED <<keySet, memo, stepError, fetchRetry, genRetry, ex, sv, job,
                   retryVars, normVars, up>>

\* A step threw and its retries are used up: the run is marked failed.
SettleFailed ==
    /\ pc \in {"extractFailed", "saveFailed"}
    /\ stepRetries[FailedStep] >= Retries
    /\ pc' = "failed"
    /\ job' = [job EXCEPT !.result = "failed", !.settledFrom = FailedStep]
    /\ UNCHANGED <<keySet, memo, stepRetries, stepError, fetchRetry, genRetry, ex,
                   sv, retryVars, normVars, up>>

\* Both steps are checkpointed: the handler body runs to its return (420-447).
FinishJob ==
    /\ pc \in {"pending", "replay"}
    /\ HandlerNext(memo) = "return"
    /\ pc' = "completed"
    /\ job' = [job EXCEPT !.result = "completed"]
    /\ UNCHANGED <<keySet, memo, stepRetries, stepError, fetchRetry, genRetry, ex,
                   sv, retryVars, normVars, up>>

RetryParked ==
    /\ rMaxRetries = MaxRetriesDefault
    /\ rBaseDelayMs = BaseDelayDefault
    /\ opFailures = 0
    /\ opCalls = 0
    /\ opLog = <<>>
    /\ rs = RetryIdle

NotCalled == [called |-> FALSE, ok |-> FALSE, value |-> JsUndefined, error |-> NoError]

NormParked ==
    /\ nData = JsUndefined
    /\ nResult = NotCalled

UploadParked == up = UpIdle

Init == JobInit /\ RetryParked /\ NormParked /\ UploadParked

Next ==
    \/ BeginExtract
    \/ FetchSucceeds
    \/ FetchFails
    \/ Probe
    \/ GenerateSucceeds
    \/ GenerateFails
    \/ BeginSave
    \/ MutationSucceeds
    \/ MutationFails
    \/ TrackSucceeds
    \/ TrackFails
    \/ ScheduleRetry
    \/ SettleFailed
    \/ FinishJob

Spec == Init /\ [][Next]_vars

\* Every remote call eventually returns or fails, and the scheduler eventually
\* runs what it has scheduled: no enabled step of the run is put off forever.
FairSpec == Spec /\ WF_vars(Next)

\* Largest maxRetries tried; the operation's failure count ranges over
\* 0..MaxMaxRetries, so it covers "always fails" for every maxRetries.
MaxMaxRetries == 5

BaseDelays == {500, BaseDelayDefault, 3000}

\* What an operation may throw: Error objects, and one bare string.
Throwables ==
    {Thrown("Error", MsgBoom), Thrown("Error", MsgHttp429),
     Thrown("Error", MsgGenerate), Thrown("value", MsgQuota)}

RetryInit ==
    /\ rMaxRetries \in 1..MaxMaxRetries
    /\ rBaseDelayMs \in BaseDelays
    /\ opFailures \in 0..MaxMaxRetries
    /\ opCalls = 0
    /\ opLog = <<>>
    /\ rs = RetryStart(rMaxRetries)
    /\ JobIdle
    /\ NormParked
    /\ UploadParked

\* await fn() where this invocation of the operation throws.
RetryInvokeFails ==
    /\ rs.status = "running"
    /\ opCalls < opFailures
    /\ \E t \in Throwables :
        /\ opLog' = Append(opLog, t)
        /\ rs' = RetryOnFailure(rs, t, rMaxRetries, rBaseDelayMs)
    /\ opCalls' = opCalls + 1
    /\ UNCHANGED <<rMaxRetries, rBaseDelayMs, opFailures, jobVars, normVars, up>>

\* await fn() where this invocation returns; the n-th invocation returns n.
RetryInvokeSucceeds ==
    /\ rs.status = "running"
    /\ opCalls >= opFailures
    /\ opCalls' = opCalls + 1
    /\ rs' = RetryOnSuccess(rs, opCalls + 1)
    /\ UNCHANGED <<rMaxRetries, rBaseDelayMs, opFailures, opLog, jobVars, normVars, up>>

RetryNext == RetryInvokeFails \/ RetryInvokeSucceeds

RetrySpec == RetryInit /\ [][RetryNext]_vars

(***************************************************************************)
(* validateReceiptData on its own: the argument is drawn from a set of      *)
(* values JSON.parse can produce (and undefined), the one action calls it.  *)
(***************************************************************************)

TextX == <<"x">>
TextAcmePadded == <<" ", "A", "c", "m", "e", " ">>

NonObjectRoots ==
    {JsUndefined, JsNull, JsNum(0), JsNum(42), JsStr(<<>>), JsStr(TextX),
     JsBool(FALSE), JsBool(TRUE)}

ArrayRoots == {JsArr(<<>>), JsArr(<<JsNum(1)>>), JsArr(<<EmptyObj>>)}

MerchantValues ==
    {JsUndefined, JsNull, JsStr(TextX), JsNum(7),
     JsObj([name |-> JsStr(TextAcmePadded)]),
     JsObj([name |-> JsNum(5), address |-> JsNull, contact |-> JsBool(TRUE)])}

TransactionValues ==
    {JsUndefined,
     JsObj([date |-> JsStr(<<"2", "0", "2", "4", "-", "0", "1", "-", "0", "2">>),
            payment_method |-> JsArr(<<JsStr(<<"a">>), JsNull>>)])}

ItemsValues ==
    {JsUndefined, JsNull, JsStr(TextX), EmptyObj, JsArr(<<>>),
     JsArr(<<JsNull>>), JsArr(<<JsNum(5)>>),
     JsArr(<<JsObj([name |-> JsStr(<<"T", "e", "a">>),
                    quantity |-> JsStr(<<"2">>),
                    unitPrice |-> JsStr(<<"a", "b", "c">>)]),
             JsStr(TextX)>>)}

TotalsValues ==
    {JsUndefined, JsArr(<<JsNum(1)>>),
     JsObj([subtotal |-> JsStr(<<"a", "b", "c">>), tax |-> JsNull,
            total |-> JsStr(<<" ", "1", "2", " ">>),
            currency |-> JsStr(<<"e", "u", "r">>)]),
     JsObj([total |-> JsBool(TRUE), currency |-> JsNum(5)])}

ObjectRoots ==
    {EmptyObj} \cup
    {JsObj([merchant |-> m, transaction |-> t, items |-> i, totals |-> o]) :
        m \in MerchantValues, t \in TransactionValues, i \in ItemsValues,
        o \in TotalsValues}

NormInputs == NonObjectRoots \cup ArrayRoots \cup ObjectRoots

NormInit ==
    /\ nData \in NormInputs
    /\ nResult = NotCalled
    /\ JobIdle
    /\ RetryParked
    /\ UploadParked

\* validateReceiptData(nData) returns or throws.
Normalize ==
    /\ ~nResult.called
    /\ LET r == validateReceiptData(nData)
       IN  nResult' = [called |-> TRUE, ok |-> r.ok, value |-> r.value,
                       error |-> r.error]
    /\ UNCHANGED <<nData, retryVars, jobVars, up>>

NormNext == Normalize

NormSpec == NormInit /\ [][NormNext]_vars

(***************************************************************************)
(* uploadPDF: one call, with the user and the form data drawn from sets     *)
(***************************************************************************)

\* Variant: the file type is not looked at.
AcceptsAnyFile(file) == FALSE

\* !file.type.includes("pdf") && !file.name.toLowerCase().endsWith(".pdf")
RejectsFileType(file) ==
    /\ ~Includes(file.type, TokPdf)
    /\ ~EndsWith(ToLowerCase(file.name), TokDotPdf)

\* Lines 16-34: the checks before the first remote call; NoResult when the
\* request passes them.
UploadChecks(user, file) ==
    IF ~user THEN Failure(MsgNotAuthenticated)
    ELSE IF ~file.present THEN Failure(MsgNoFile)
    ELSE IF RejectsFileType(file) THEN Failure(MsgOnlyPdf)
    ELSE NoResult

\* getFileDownloadUrl: the query gives a URL, gives null, or throws; the
\* function itself never throws.
getFileDownloadUrl(outcome) ==
    CASE outcome = "url" ->
           [success |-> TRUE, downloadUrl |-> DownloadUrl, error |-> <<>>]
      [] outcome = "null" ->
           [success |-> FALSE, downloadUrl |-> JsUndefined,
            error |-> MsgUrlNotFound]
      [] OTHER ->
           [success |-> FALSE, downloadUrl |-> JsUndefined,
            error |-> MsgMutationFailed]

\* data: { url: fileUrl.downloadUrl, receiptId }
ExtractEvent(fileUrl, receiptId) ==
    [url |-> fileUrl.downloadUrl, receiptId |-> receiptId]

\* Variant: a failed inngest.send fails the upload.
SendFailureFailsUpload(threw, receiptId, fileName) ==
    IF threw THEN Failure(MsgSendFailed) ELSE Success(receiptId, fileName)

\* Lines 64-86: the inner try/catch around inngest.send, then the return.
AfterSend(threw, receiptId, fileName) == Success(receiptId, fileName)

UploadInit ==
    /\ up \in {UpStart(u, f) : u \in BOOLEAN, f \in Files}
    /\ JobIdle
    /\ RetryParked
    /\ NormParked

\* currentUser(), formData.get("file") and the type check (lines 16-34).
CheckRequest ==
    /\ up.pc = "start"
    /\ LET r == UploadChecks(up.user, up.file)
       IN  up' = IF r.returned
                 THEN [up EXCEPT !.pc = "done", !.result = r]
                 ELSE [up EXCEPT !.pc = "generateUploadUrl"]
    /\ UNCHANGED <<retryVars, jobVars, normVars>>

\* convex.mutation(api.receipts.generateUploadUrl) (line 36); a throw goes to
\* the outer catch (87-93).
GenerateUploadUrl ==
    /\ up.pc = "generateUploadUrl"
    /\ \E ok \in BOOLEAN :
        up' = [up EXCEPT
                 !.urlRequests = @ + 1,
                 !.pc = IF ok THEN "upload" ELSE "done",
                 !.result = IF ok THEN @ ELSE Failure(MsgMutationFailed)]
    /\ UNCHANGED <<retryVars, jobVars, normVars>>

\* The POST of the file to the upload URL (lines 38-51).
UploadFile ==
    /\ up.pc = "upload"
    /\ \E outcome \in {"ok", "notOk", "rejects"} :
        up' = [up EXCEPT
                 !.uploads = @ + 1,
                 !.pc = IF outcome = "ok" THEN "storeReceipt" ELSE "done",
                 !.result = CASE outcome = "ok" -> @
                              [] outcome = "notOk" -> Failure(MsgUploadFailed)
                              [] OTHER -> Failure(MsgFetchFailed)]
    /\ UNCHANGED <<retryVars, jobVars, normVars>>

\* convex.mutation(api.receipts.storeReceipt) (lines 53-59).
StoreReceipt ==
    /\ up.pc = "storeReceipt"
    /\ \E ok \in BOOLEAN :
        up' = [up EXCEPT
                 !.stored = IF ok THEN @ + 1 ELSE @,
                 !.pc = IF ok THEN "getFileDownloadUrl" ELSE "done",
                 !.result = IF ok THEN @ ELSE Failure(MsgMutationFailed)]
    /\ UNCHANGED <<retryVars, jobVars, normVars>>

\* const fileUrl = await getFileDownloadUrl(storageId) (line 61); the result
\* is not inspected.
LookupDownloadUrl ==
    /\ up.pc = "getFileDownloadUrl"
    /\ \E outcome \in {"url", "null", "throws"} :
        up' = [up EXCEPT
                 !.lookups = @ + 1,
                 !.fileUrl = getFileDownloadUrl(outcome),
                 !.pc = "send"]
    /\ UNCHANGED <<retryVars, jobVars, normVars>>

\* inngest.send in its own try/catch, then the return (lines 64-86).
SendEvent ==
    /\ up.pc = "send"
    /\ \E threw \in BOOLEAN :
        up' = [up EXCEPT
                 !.sends = @ + 1,
                 !.events = IF threw THEN @
                            ELSE Append(@, ExtractEvent(up.fileUrl, ReceiptId)),
                 !.sendThrew = threw,
                 !.result = AfterSend(threw, ReceiptId, up.file.name),
                 !.pc = "done"]
    /\ UNCHANGED <<retryVars, jobVars, normVars>>

UploadNext ==
    \/ CheckRequest
    \/ GenerateUploadUrl
    \/ UploadFile
    \/ StoreReceipt
    \/ LookupDownloadUrl
    \/ SendEvent

UploadSpec == UploadInit /\ [][UploadNext]_vars

(***************************************************************************)
(* Claims about retryWithBackoff (checked under RetrySpec)                  *)
(***************************************************************************)

RECURSIVE SumSeq(_)
SumSeq(q) == IF q = <<>> THEN 0 ELSE q[1] + SumSeq(Tail(q))

\* The delay the executor computes after the i-th failure (1-based) of the log.
DelayAfterFailure(i) ==
    ComputeDelay(i - 1, rBaseDelayMs, IsRateLimit(ToError(opLog[i])))

\* C1: an operation that fails exactly k < maxRetries times and then succeeds
\* is invoked exactly k+1 times, the value of the (k+1)-th invocation is
\* returned, and the wait is the sum of the first k computed delays: one
\* delay after each failure, none after the success.
C1_FailsKThenSucceeds ==
    (opFailures < rMaxRetries /\ rs.status # "running") =>
        /\ rs.status = "returned"
        /\ opCalls = opFailures + 1
        /\ rs.result = opFailures + 1
        /\ Len(rs.delays) = opFailures
        /\ \A i \in 1..opFailures : rs.delays[i] = DelayAfterFailure(i)
        /\ rs.waited = SumSeq([i \in 1..opFailures |-> DelayAfterFailure(i)])

\* Three failures of mixed classification, then the fourth invocation returns.
C1_Witness ==
    /\ rs.status = "returned"
    /\ opFailures = 3
    /\ rMaxRetries = MaxRetriesDefault
    /\ rBaseDelayMs = BaseDelayDefault
    /\ opCalls = 4
    /\ IsRateLimit(ToError(opLog[1]))
    /\ ~IsRateLimit(ToError(opLog[2]))
    /\ rs.waited = 10000 + 4000 + ComputeDelay(2, 2000, IsRateLimit(ToError(opLog[3])))

\* C2: an operation that fails on every invocation is invoked exactly
\* maxRetries times, then the error of the last invocation (not an earlier
\* one) is raised to the caller.
C2_AlwaysFailsRaisesLast ==
    (opFailures >= rMaxRetries /\ rs.status # "running") =>
        /\ rs.status = "thrown"
        /\ opCalls = rMaxRetries
        /\ Len(opLog) = rMaxRetries
        /\ rs.error.kind = "Error"
        /\ rs.error.message = opLog[rMaxRetries].message

\* Five failures with the defaults, the last error differing from the first.
C2_Witness ==
    /\ rs.status = "thrown"
    /\ rMaxRetries = MaxRetriesDefault
    /\ opCalls = MaxRetriesDefault
    /\ opLog[1].message # opLog[MaxRetriesDefault].message
    /\ rs.error.message = opLog[MaxRetriesDefault].message

\* The message of the i-th failure names a rate limit.
LoggedRateLimit(i) ==
    \/ Includes(opLog[i].message, Tok429)
    \/ Includes(opLog[i].message, TokRate)
    \/ Includes(opLog[i].message, TokQuota)

\* C12: whenever a failed attempt that is not the last one has a message
\* containing "429", "rate" or "quota", the delay waited before the next
\* attempt is at least 10000 ms, whatever the attempt index and baseDelayMs,
\* also when baseDelayMs * 2^attempt is smaller.
C12_RateLimitFloor ==
    \A i \in 1..Len(opLog) :
        (i < rMaxRetries /\ LoggedRateLimit(i)) =>
            /\ Len(rs.delays) >= i
            /\ rs.delays[i] >= 10000

\* Base delay 500 ms: 500 and 2000 are below the floor, yet 10000 is waited.
C12_Witness ==
    /\ rBaseDelayMs = 500
    /\ Len(rs.delays) >= 3
    /\ opLog[1].message = MsgHttp429
    /\ opLog[3].message = MsgQuota
    /\ 500 * 2^2 < 10000
    /\ rs.delays[1] = 10000
    /\ rs.delays[3] = 10000

\* C13: after a failure that is not rate-limited, the delay before the next
\* attempt is exactly baseDelayMs * 2^attempt (attempt is the 0-based index of
\* the failed attempt); the delay is a function of the attempt index and the
\* error classification only (a rate-limited one is that value floored at
\* 10000).
C13_ExponentialDelay ==
    \A i \in 1..Len(opLog) :
        i < rMaxRetries =>
            /\ Len(rs.delays) >= i
            /\ ~LoggedRateLimit(i) =>
                   rs.delays[i] = rBaseDelayMs * 2^(i - 1)
            /\ LoggedRateLimit(i) =>
                   rs.delays[i] = IF rBaseDelayMs * 2^(i - 1) >= 10000
                                  THEN rBaseDelayMs * 2^(i - 1)
                                  ELSE 10000

\* The defaults, five failures none of them rate-limited.
C13_Witness ==
    /\ rMaxRetries = 5
    /\ rBaseDelayMs = 2000
    /\ rs.status = "thrown"
    /\ \A i \in 1..5 : opLog[i].message = MsgBoom
    /\ rs.delays = <<2000, 4000, 8000, 16000>>

\* C21: retryWithBackoff never waits after the final failed attempt: when
\* attempt maxRetries-1 fails the last error is raised at once, so an operation
\* that always fails incurs exactly maxRetries-1 delays.
C21_NoWaitAfterLastFailure ==
    /\ [](rs.status = "thrown" =>
            /\ opCalls = rMaxRetries
            /\ Len(rs.delays) = rMaxRetries - 1)
    /\ [][(rs.status = "running" /\ rs.attempt = rMaxRetries - 1
            /\ Len(opLog') = Len(opLog) + 1) =>
            /\ rs'.status = "thrown"
            /\ rs'.delays = rs.delays
            /\ rs'.waited = rs.waited
            /\ rs'.error.message = opLog'[Len(opLog')].message]_vars

\* Three attempts allowed, three failures: two delays, none after the third.
C21_Witness ==
    /\ rMaxRetries = 3
    /\ rs.status = "thrown"
    /\ opCalls = 3
    /\ Len(rs.delays) = 2
    /\ rs.waited = rs.delays[1] + rs.delays[2]

(***************************************************************************)
(* Claims about extractAndSavePDF (checked under Spec)                     *)
(***************************************************************************)

\* The state of the pipeline's state machine that a model state stands for.
Phase ==
    CASE pc \in {"idle", "pending"} -> "PENDING"
      [] pc \in {"fetch", "probe", "generate", "extractFailed"} -> "EXTRACTING"
      [] pc \in {"mutation", "track", "saveFailed"} -> "SAVING"
      [] pc = "replay" ->
            IF ~memo.extract.done THEN "EXTRACTING"
            ELSE IF ~memo.save.done /\ job.saveExecs = 0 THEN "EXTRACTED"
            ELSE "SAVING"
      [] pc = "completed" -> "COMPLETED"
      [] OTHER -> "FAILED"

\* The receipts validateReceiptData can return for the replies of the model.
NormalizedReceipts ==
    {validateReceiptData(r.value).value :
        r \in {q \in Replies : q.valid /\ validateReceiptData(q.value).ok}}

\* C3: once the extract step has succeeded, nothing (in particular no failure
\* and retry of the save step) executes it again: no new document fetch, no
\* new AI call, the checkpointed data stays what the first successful extract
\* produced, and every mutation the save step sends carries that data.
C3_CheckpointIsolation ==
    [][memo.extract.done =>
        /\ memo'.extract = memo.extract
        /\ job'.extractExecs = job.extractExecs
        /\ ex'.fetchCalls <= ex.fetchCalls
        /\ ex'.probeCalls <= ex.probeCalls
        /\ ex'.genCalls <= ex.genCalls
        /\ pc' \notin {"fetch", "probe", "generate", "extractFailed"}
        /\ (job'.mutationsOk > job.mutationsOk =>
              job'.dbArgs = MutationArgs(EventData.receiptId, memo.extract.value))
      ]_vars

\* The save step runs for the second time, after one extract execution.
C3_Witness ==
    /\ pc = "track"
    /\ job.saveExecs = 2
    /\ stepRetries.save = 1
    /\ job.extractExecs = 1
    /\ memo.extract.done
    /\ ex.fetchCalls = 0
    /\ job.dbArgs.merchantName = <<"A", "c", "m", "e">>

\* C4: a failure of client.track after the mutation has succeeded does not
\* fail the save step, so the step is not retried and the mutation is not
\* executed again.
C4_TrackFailureSwallowed ==
    (sv.mutationOk /\ sv.trackCalls > 0 /\ ~sv.trackOk) =>
        /\ pc \notin {"saveFailed", "failed"}
        /\ stepError = NoError
        /\ memo.save.done

\* C5: in every execution of the save step the usage event is reported only
\* after that execution's mutation has returned; when the mutation errors the
\* step fails and that execution reports no usage event.
C5_TrackOnlyAfterMutation ==
    /\ sv.trackCalls > 0 => sv.mutationOk
    /\ pc = "track" => sv.mutationOk
    /\ job.usageEvents <= job.mutationsOk
    /\ (sv.mutationCalls > 0 /\ ~sv.mutationOk) =>
          /\ sv.trackCalls = 0
          /\ pc \in {"saveFailed", "replay", "failed"}
          /\ ~memo.save.done
          /\ stepError.message = MsgMutationFailed

\* A first execution whose mutation erred reported nothing; the second
\* execution's mutation returned and its usage event followed.
C5_Witness ==
    /\ stepRetries.save = 1
    /\ job.saveExecs = 2
    /\ job.mutationsOk = 1
    /\ job.usageEvents = 1
    /\ sv.mutationOk
    /\ sv.trackOk

\* C6: over one job, scheduler retries included, the mutation
\* updateReceiptWithExtractedData succeeds at most once.
C6_AtMostOneMutation == job.mutationsOk <= 1

\* The transitions of the pipeline's state machine; a phase with several
\* model states may also stay where it is.
PhaseStep(from, to) ==
    <<from, to>> \in
        {<<"PENDING", "EXTRACTING">>, <<"EXTRACTING", "EXTRACTING">>,
         <<"EXTRACTING", "EXTRACTED">>, <<"EXTRACTING", "FAILED">>,
         <<"EXTRACTED", "SAVING">>, <<"SAVING", "SAVING">>,
         <<"SAVING", "COMPLETED">>, <<"SAVING", "FAILED">>}

\* C7: the job moves PENDING -> EXTRACTING -> EXTRACTED -> SAVING -> COMPLETED;
\* the save step runs only with the extract step's normalized data, the
\* "completed" result is returned only after the save step has succeeded, and
\* FAILED is entered only from EXTRACTING or SAVING.
C7_StateMachine ==
    /\ [](Phase = "SAVING" =>
            memo.extract.done /\ memo.extract.value \in NormalizedReceipts)
    /\ [](job.result = "completed" <=> pc = "completed")
    /\ [](pc = "completed" =>
            memo.extract.done /\ memo.save.done /\ sv.mutationOk /\ sv.trackOk)
    /\ [][PhaseStep(Phase, Phase')]_vars

\* The job completed after both steps needed a scheduler retry.
C7_Witness ==
    /\ pc = "completed"
    /\ job.result = "completed"
    /\ stepRetries.extract = 1
    /\ stepRetries.save = 1

\* C8: when the fetched document has zero bytes the extract step fails with
\* the empty-document error and that execution calls neither the connectivity
\* probe nor generateContent.
C8_EmptyDocumentBeforeAI ==
    (ex.fetched /\ Len(ex.doc) = 0) =>
        /\ ex.probeCalls = 0
        /\ ex.genCalls = 0
        /\ pc \in {"extractFailed", "replay", "failed"}
        /\ ~memo.extract.done
        /\ stepError.message = MsgPdfEmpty

\* The second fetch attempt returned an empty body and the step has failed.
C8_Witness ==
    /\ pc = "extractFailed"
    /\ ex.fetched
    /\ Len(ex.doc) = 0
    /\ ex.fetchCalls = 2
    /\ stepError.message = MsgPdfEmpty

\* C9 as stated: the configuration error is raised before any network call of
\* that execution, the HTTP fetch of the document included.
C9_ConfigErrorBeforeAnyNetworkCall ==
    stepError.message = MsgKeyMissing =>
        ex.fetchCalls = 0 /\ ex.probeCalls = 0 /\ ex.genCalls = 0

\* C9 amended: without the credential no execution of the extract step calls
\* the AI provider (probe or generateContent); the configuration error is
\* raised once the document fetch has returned a non-empty body, and only then.
C9_ConfigErrorBeforeAICalls ==
    /\ ~keySet =>
          /\ ex.probeCalls = 0
          /\ ex.genCalls = 0
          /\ pc \notin {"probe", "generate"}
          /\ ~memo.extract.done
          /\ (ex.fetched /\ Len(ex.doc) > 0) => stepError.message = MsgKeyMissing
    /\ stepError.message = MsgKeyMissing =>
          /\ ~keySet
          /\ ex.fetched
          /\ Len(ex.doc) > 0
          /\ ex.fetchCalls >= 1
          /\ pc \in {"extractFailed", "replay", "failed"}

\* The configuration error was raised after a fetch that needed three attempts.
C9_Witness ==
    /\ ~keySet
    /\ pc = "extractFailed"
    /\ stepError.message = MsgKeyMissing
    /\ ex.fetchCalls = 3
    /\ ex.probeCalls = 0

\* C10: once the missing-credential error has been raised the extract step is
\* not executed again: the job settles in FAILED.
C10_ConfigErrorNotRetried ==
    [][stepError.message = MsgKeyMissing =>
        /\ job'.extractExecs = job.extractExecs
        /\ pc' \in {"extractFailed", "failed"}]_vars

\* C11: every job terminates: with every remote call eventually returning or
\* failing, the run reaches COMPLETED or FAILED; a step that keeps throwing
\* is re-run by the scheduler at most 3 times, after which the job is FAILED.
C11_Terminates ==
    /\ <>(pc \in {"completed", "failed"})
    /\ [](stepRetries.extract <= 3 /\ stepRetries.save <= 3)
    /\ [](job.extractExecs <= 4 /\ job.saveExecs <= 4)
    /\ [](pc = "failed" => stepRetries[job.settledFrom] = 3)

\* The extract step threw four times: the run and its three retries.
C11_Witness ==
    /\ pc = "failed"
    /\ job.settledFrom = "extract"
    /\ stepRetries.extract = 3
    /\ job.extractExecs = 4

\* C17: the connectivity probe is non-fatal: whatever its outcome (success,
\* a non-OK status such as 401, 403 or 429, a timeout or a network error), the
\* extract step goes on to the extraction request; a step that fails after
\* its probe has failed in the extraction request, not in the probe.
C17_ProbeNonFatal ==
    /\ [][pc = "probe" => (pc' = "generate" /\ genRetry'.status = "running")]_vars
    /\ [](pc = "extractFailed" /\ ex.probeCalls > 0 => ex.genCalls > 0)

\* The probe threw inside its try block (401, 403, timeout or network error)
\* and the step is at the extraction request all the same.
C17_Witness ==
    /\ pc = "generate"
    /\ ex.probeCalls = 1
    /\ ex.probeThrew
    /\ ex.genCalls = 0
    /\ genRetry.status = "running"

\* C18 as stated: an empty-document failure is retried by retryWithBackoff,
\* so it reaches the host scheduler only when the fetch has been attempted
\* maxRetries times in that execution.
C18_EmptyDocumentRetriedByBackoff ==
    (pc = "extractFailed" /\ stepError.message = MsgPdfEmpty) =>
        ex.fetchCalls = MaxRetriesDefault

\* C18, amended: the empty-document error is raised after retryWithBackoff
\* has returned the body, so it goes to the host scheduler at once, whatever
\* number of attempts the executor has left; the scheduler then re-runs the
\* extract step while it has retries left.
C18_EmptyDocumentRaisedAtOnce ==
    /\ [][(pc = "fetch" /\ ex'.fetched /\ Len(ex'.doc) = 0) =>
            /\ pc' = "extractFailed"
            /\ stepError'.message = MsgPdfEmpty
            /\ fetchRetry'.status = "idle"
            /\ ex'.fetchCalls = ex.fetchCalls + 1]_vars
    /\ [][(pc = "extractFailed" /\ stepError.message = MsgPdfEmpty) =>
            /\ ex'.fetchCalls = ex.fetchCalls
            /\ pc' = IF stepRetries.extract < 3 THEN "replay" ELSE "failed"]_vars

\* The first attempt returned a zero-length body; the step has failed with
\* four of the executor's five attempts unused.
C18_Witness ==
    /\ pc = "extractFailed"
    /\ stepError.message = MsgPdfEmpty
    /\ ex.fetchCalls = 1
    /\ fetchRetry.status = "idle"
    /\ stepRetries.extract = 0

(***************************************************************************)
(* Claims about validateReceiptData (checked under NormSpec)                *)
(***************************************************************************)

\* C15: for every input whose root is not an object (a literal number, a
\* plain array, null, ...) validateReceiptData raises the invalid-shape error
\* and returns no receipt.
C15_NonObjectRootRaises ==
    (nResult.called /\ nData.t # "obj") =>
        /\ ~nResult.ok
        /\ nResult.error.message = MsgInvalidStructure

IsText(s) == \A k \in DOMAIN s : s[k] \in STRING

IsNumber(n) == n \in Int

\* C16: for every input with an object root, whatever its nested values,
\* validateReceiptData does not raise and returns a receipt whose text fields
\* are texts and whose numeric fields are numbers.
C16_ObjectRootNeverRaises ==
    (nResult.called /\ nData.t = "obj") =>
        /\ nResult.ok
        /\ LET r == nResult.value
           IN  /\ IsText(r.merchant.name)
               /\ IsText(r.merchant.address)
               /\ IsText(r.merchant.contact)
               /\ IsText(r.transaction.date)
               /\ IsText(r.transaction.receipt_number)
               /\ IsText(r.transaction.payment_method)
               /\ IsText(r.totals.currency)
               /\ IsNumber(r.totals.subtotal)
               /\ IsNumber(r.totals.tax)
               /\ IsNumber(r.totals.total)
               /\ \A k \in DOMAIN r.items :
                    /\ IsText(r.items[k].name)
                    /\ IsNumber(r.items[k].quantity)
                    /\ IsNumber(r.items[k].unitPrice)
                    /\ IsNumber(r.items[k].totalPrice)

(***************************************************************************)
(* Claims about uploadPDF (checked under UploadSpec)                        *)
(***************************************************************************)

\* C14: once the file is uploaded and the receipt stored, a failure of
\* inngest.send does not change the outcome: uploadPDF returns success: true
\* with the stored receiptId and the file name, as it does when the send
\* succeeds.
C14_SendFailureTolerated ==
    (up.pc = "done" /\ up.sends = 1) =>
        /\ up.uploads = 1
        /\ up.stored = 1
        /\ up.result.returned
        /\ up.result.success
        /\ up.result.receiptId = ReceiptId
        /\ up.result.fileName = up.file.name

\* inngest.send threw and the upload is reported as a success.
C14_Witness ==
    /\ up.pc = "done"
    /\ up.sendThrew
    /\ up.events = <<>>
    /\ up.stored = 1
    /\ up.result.success
    /\ up.result.fileName = NameUpper

\* C19: when the download-URL lookup fails (success: false, no downloadUrl),
\* no event whose url is undefined is sent to the job scheduler.
C19_NoEventWithoutUrl ==
    (up.lookups > 0 /\ ~up.fileUrl.success) =>
        \A k \in DOMAIN up.events : up.events[k].url.t # "undefined"

\* The requests uploadPDF rejects: nobody signed in, no file in the form data,
\* or a file that neither has a PDF MIME type nor is named *.pdf.
Rejected ==
    \/ ~up.user
    \/ ~up.file.present
    \/ (up.file.type # TypePdf /\ up.file.name \in {NameTxt, NamePdfTxt})

\* C20: a rejected request has no remote effect: uploadPDF returns success:
\* false without requesting an upload URL, uploading bytes, storing a receipt
\* record or enqueuing an extraction event.
C20_RejectionHasNoEffect ==
    Rejected =>
        /\ up.urlRequests = 0
        /\ up.uploads = 0
        /\ up.stored = 0
        /\ up.lookups = 0
        /\ up.sends = 0
        /\ up.events = <<>>
        /\ up.pc \in {"start", "done"}
        /\ up.pc = "done" => (up.result.returned /\ ~up.result.success)

\* A signed-in user sends a text file whose name merely contains "pdf".
C20_Witness ==
    /\ up.pc = "done"
    /\ up.user
    /\ up.file = File(TypeText, NamePdfTxt)
    /\ up.result.error = MsgOnlyPdf
    /\ ~up.result.success
    /\ up.urlRequests = 0

====
